---- MODULE Spec2Model ----
(***************************************************************************)
(* Model of finitude.py: the per-device HvacMonitor (connection           *)
(* supervisor, frame processor, frame store, synchronisation flag) and the *)
(* process-wide gauge registry shared by the device threads.              *)
(*                                                                         *)
(* Python strings that the code takes apart (item names, register names,  *)
(* table names, gauge names) are sequences of one-character strings.      *)
(* Opaque byte strings (frame.data, rest) are TLA+ strings; the empty one  *)
(* is "".  An optional value (the result of dict.get) is <<>> for None and *)
(* <<x>> for x.                                                            *)
(***************************************************************************)
EXTENDS Integers, Sequences, FiniteSets, TLC

VARIABLES
    pc,                 \* per device: where its thread is in run()
    stream,             \* self.stream: 0 is None, n is the n-th stream made
    bus,                \* self.bus: 0 is None, n is a Bus over stream n
    synchronized,       \* self.synchronized
    register_to_rest,   \* self.register_to_rest
    frame_to_index,     \* self.frame_to_index
    frames,             \* self.frames
    FRAME_COUNT,        \* HvacMonitor.FRAME_COUNT, per label
    DESYNC_COUNT,       \* HvacMonitor.DESYNC_COUNT, per label
    RECONNECT_COUNT,    \* HvacMonitor.RECONNECT_COUNT, per label
    DEVINFO,            \* HvacMonitor.DEVINFO, per (name, device) label
    GAUGES,             \* HvacMonitor.GAUGES: gauge name -> gauge object
    CV,                 \* HvacMonitor.CV: <<>> when free, <<d>> when held by d
    created,            \* the Gauge objects constructed so far, by name
    samples,            \* per Gauge object: label -> value last set
    cur,                \* per device: the frame process_frame is working on
    item,               \* per device: position in values.items()
    gauge,              \* per device: the local variable gauge of _set_gauge
    clock,              \* time.time()
    opens,              \* per device: calls of open() so far
    openfails,          \* per device: calls of open() that raised
    oserrors,           \* OSErrors raised so far (all devices)
    crcs,               \* per device: CRC-error callbacks so far
    lastcall,           \* per device: the arguments of the last _storeframe
    storecalls,         \* per device: calls of _storeframe so far
    nd_in,              \* name derivation alone: the arguments
    nd_out,             \* name derivation alone: the result, <<>> before
    loaded,             \* main: config as line 172 left it
    listed,             \* the names in the order .items() of line 161 yields them
    config,             \* Finitude.config
    step,               \* main: the statement it has reached
    served,             \* the port the HTTP server was started on, 0 before
    larg,               \* the argument listeners of start_listeners
    monitors            \* name -> path of the HvacMonitors made and started

vars == <<pc, stream, bus, synchronized, register_to_rest, frame_to_index,
          frames, FRAME_COUNT, DESYNC_COUNT, RECONNECT_COUNT, DEVINFO,
          GAUGES, CV, created, samples, cur, item, gauge, clock, opens,
          openfails, oserrors, crcs, lastcall, storecalls, nd_in, nd_out,
          loaded, listed, config, step, served, larg, monitors>>

\* what Finitude and main own
orch == <<loaded, listed, config, step, served, larg, monitors>>

-----------------------------------------------------------------------------
(* Bounds of the model.                                                    *)

\* frames delivered, OSErrors raised and CRC errors reported, all devices
MaxEvents == 3
\* parts an item name is made of when the name derivation is run alone
MaxParts == 3

-----------------------------------------------------------------------------
(* Strings.                                                                *)

UPPER == <<"A", "B", "C", "D", "E", "F", "G", "H", "I", "J", "K", "L", "M",
           "N", "O", "P", "Q", "R", "S", "T", "U", "V", "W", "X", "Y", "Z">>
LOWER == <<"a", "b", "c", "d", "e", "f", "g", "h", "i", "j", "k", "l", "m",
           "n", "o", "p", "q", "r", "s", "t", "u", "v", "w", "x", "y", "z">>

LowerChar(c) ==
    IF \E i \in 1..Len(UPPER) : UPPER[i] = c
    THEN LOWER[CHOOSE i \in 1..Len(UPPER) : UPPER[i] = c]
    ELSE c

\* str.lower()
lower(s) == [i \in 1..Len(s) |-> LowerChar(s[i])]

\* str.find(sep) + 1: the first position where sep occurs in s, 0 if none
Find(s, sep) ==
    LET hits == {i \in 1..(Len(s) - Len(sep) + 1) :
                    SubSeq(s, i, i + Len(sep) - 1) = sep}
    IN  IF hits = {} THEN 0
        ELSE CHOOSE i \in hits : \A j \in hits : i <= j

\* str.partition(sep): <<pre, sep, post>> at the first occurrence of sep,
\* <<s, '', ''>> when sep does not occur
partition(s, sep) ==
    LET i == Find(s, sep)
    IN  IF i = 0 THEN <<s, <<>>, <<>>>>
        ELSE <<SubSeq(s, 1, i - 1), sep, SubSeq(s, i + Len(sep), Len(s))>>

Times7 == <<"T", "i", "m", "e", "s", "7">>
Times16 == <<"T", "i", "m", "e", "s", "1", "6">>
RPM == <<"R", "P", "M">>
CFM == <<"C", "F", "M">>
Underscore == <<"_">>
Paren == <<"(">>
FinitudePrefix == <<"f", "i", "n", "i", "t", "u", "d", "e", "_">>
DeviceInfo == <<"D", "e", "v", "i", "c", "e", "I", "n", "f", "o">>

AirHandler06 == <<"A", "i", "r", "H", "a", "n", "d", "l", "e", "r", "0", "6">>
AirHandler16 == <<"A", "i", "r", "H", "a", "n", "d", "l", "e", "r", "1", "6">>
TStatCurrentParams == <<"T", "S", "t", "a", "t", "C", "u", "r", "r", "e", "n",
                        "t", "P", "a", "r", "a", "m", "s">>
TStatZoneParams == <<"T", "S", "t", "a", "t", "Z", "o", "n", "e", "P", "a",
                     "r", "a", "m", "s">>
TStatVacationParams == <<"T", "S", "t", "a", "t", "V", "a", "c", "a", "t", "i",
                         "o", "n", "P", "a", "r", "a", "m", "s">>
HeatPump01 == <<"H", "e", "a", "t", "P", "u", "m", "p", "0", "1">>
HeatPump02 == <<"H", "e", "a", "t", "P", "u", "m", "p", "0", "2">>
airhandler == <<"a", "i", "r", "h", "a", "n", "d", "l", "e", "r">>
vacation == <<"v", "a", "c", "a", "t", "i", "o", "n">>
heatpump == <<"h", "e", "a", "t", "p", "u", "m", "p">>

\* HvacMonitor.TABLE_NAME_MAP.get(basename, basename)
TABLE_NAME_MAP(basename) ==
    CASE basename = AirHandler06 -> airhandler
      [] basename = AirHandler16 -> airhandler
      [] basename = TStatCurrentParams -> <<>>
      [] basename = TStatZoneParams -> <<>>
      [] basename = TStatVacationParams -> vacation
      [] basename = HeatPump01 -> heatpump
      [] basename = HeatPump02 -> heatpump
      [] OTHER -> basename

-----------------------------------------------------------------------------
(* _set_gauge up to the guarded section: the name and the divisor.         *)

\* lines 100-108: the two suffix tests, one after the other, the second on
\* the item name the first left
StripTimes(itemname) ==
    LET p7 == partition(itemname, Times7)
        hit7 == p7[2] # <<>> /\ p7[3] = <<>>
        name7 == IF hit7 THEN p7[1] ELSE itemname
        div7 == IF hit7 THEN 7 ELSE 1
        p16 == partition(name7, Times16)
        hit16 == p16[2] # <<>> /\ p16[3] = <<>>
    IN  [itemname |-> IF hit16 THEN p16[1] ELSE name7,
         divisor |-> IF hit16 THEN 16 ELSE div7]

\* line 112 with .lower() applied to the whole f-string
Reword_lowerall(pre, word, post) ==
    lower((IF pre # <<>> THEN pre \o Underscore ELSE <<>>)
              \o word
              \o (IF post # <<>> THEN Underscore \o post ELSE <<>>))

\* line 112: the f-string; only word is lower-cased
Reword(pre, word, post) ==
    (IF pre # <<>> THEN pre \o Underscore ELSE <<>>)
        \o lower(word)
        \o (IF post # <<>> THEN Underscore \o post ELSE <<>>)

\* lines 109-113: for words in ['RPM', 'CFM'], the first that occurs
RewriteWords(itemname) ==
    LET r == partition(itemname, RPM)
        c == partition(itemname, CFM)
    IN  IF r[2] # <<>> THEN Reword(r[1], r[2], r[3])
        ELSE IF c[2] # <<>> THEN Reword(c[1], c[2], c[3])
        ELSE itemname

\* lines 114-117
GaugeName(tablename, itemname) ==
    IF tablename # <<>>
    THEN FinitudePrefix \o tablename \o Underscore \o lower(itemname)
    ELSE FinitudePrefix \o itemname

RECURSIVE Gcd(_, _)
Gcd(a, b) == IF b = 0 THEN a ELSE Gcd(b, a % b)

\* v / divisor (true division) as a fraction in lowest terms, v >= 0
Divide(v, divisor) ==
    LET g == Gcd(v, divisor)
    IN  [num |-> v \div g, den |-> divisor \div g]

\* lines 99-117 and the value of line 123
Derive(tablename, itemname, v) ==
    LET s == StripTimes(itemname)
    IN  [stripped |-> s.itemname,
         divisor |-> s.divisor,
         itemname |-> RewriteWords(s.itemname),
         gaugename |-> GaugeName(tablename, RewriteWords(s.itemname)),
         value |-> Divide(v, s.divisor)]

-----------------------------------------------------------------------------
(* Dictionaries and optional values.                                       *)

None == <<>>
Some(x) == <<x>>

\* dict.get(k)
Get(f, k) == IF k \in DOMAIN f THEN Some(f[k]) ELSE None

\* dict[k] = v
Put(f, k, v) == [x \in (DOMAIN f) \cup {k} |-> IF x = k THEN v ELSE f[x]]

RECURSIVE SumOver(_, _)
SumOver(f, S) ==
    IF S = {} THEN 0
    ELSE LET x == CHOOSE y \in S : TRUE
         IN  f[x] + SumOver(f, S \ {x})

-----------------------------------------------------------------------------
(* The devices and the frames their buses deliver.                         *)

\* the listeners of the configuration: one HvacMonitor and one thread each
Devices == {"hp1", "hp2"}

\* frames.Function.ACK06, and a function code that is not it
ACK06 == "ACK06"
READ == "READ"

Num(n) == [str |-> FALSE, num |-> n]
Str == [str |-> TRUE, num |-> 0]

Zone == <<"Z", "o", "n", "e">>
Zone1 == <<"Z", "o", "n", "e", "(", "1", ")">>
FanRPM == <<"F", "a", "n", "R", "P", "M">>
OatTimes16 == <<"O", "a", "t", "T", "i", "m", "e", "s", "1", "6">>
Mode == <<"M", "o", "d", "e">>

\* A frame as process_frame sees it: func, length, source and data are its
\* fields, name, values and rest are what parse_register() returns for it.
\* values is the dict in iteration order.
Frame(data, func, length, name, values, rest) ==
    [data |-> data, func |-> func, length |-> length, source |-> 1,
     name |-> name, values |-> values, rest |-> rest]

NoFrame == Frame("", "", 0, <<>>, <<>>, "")

BusFrames ==
    { Frame("P1", ACK06, 3, Zone1, <<>>, "on"),
      Frame("P2", ACK06, 3, Zone1, <<>>, "off"),
      Frame("P3", ACK06, 3, Zone1, << <<FanRPM, Num(700)>> >>, ""),
      Frame("P4", ACK06, 3, HeatPump01,
            << <<Mode, Str>>, <<OatTimes16, Num(40)>> >>, "on"),
      Frame("P5", READ, 3, Zone1, <<>>, "on"),
      Frame("P6", ACK06, 2, Zone1, <<>>, "off"),
      Frame("P7", ACK06, 3, DeviceInfo, << <<Mode, Str>> >>, "") }

-----------------------------------------------------------------------------
(* HvacMonitor._storeframe                                                 *)

\* _storeframe without the early return of lines 86-87
_storeframe_always(rtr, fti, frs, now, data, name, rest) ==
    LET known == Get(fti, data)
        index == IF known = None THEN Cardinality(DOMAIN fti) + 1
                 ELSE known[1]
    IN  [register_to_rest |-> Put(rtr, name, rest),
         frame_to_index |-> IF known = None THEN Put(fti, data, index) ELSE fti,
         frames |-> Append(frs, <<now, name, index>>),
         stored |-> TRUE]

\* _storeframe reading the last rest also when rest is empty, so that an
\* empty rest after a non-empty one is a change
_storeframe_empty(rtr, fti, frs, now, data, name, rest) ==
    LET lastrest == Get(rtr, name)
        known == Get(fti, data)
        index == IF known = None THEN Cardinality(DOMAIN fti) + 1
                 ELSE known[1]
    IN  IF lastrest = Some(rest) \/ (rest = "" /\ lastrest = None)
        THEN [register_to_rest |-> rtr, frame_to_index |-> fti,
              frames |-> frs, stored |-> FALSE]
        ELSE [register_to_rest |-> Put(rtr, name, rest),
              frame_to_index |-> IF known = None THEN Put(fti, data, index)
                                 ELSE fti,
              frames |-> Append(frs, <<now, name, index>>),
              stored |-> TRUE]

\* _storeframe without the lookup of lines 89-90: a new index every time
_storeframe_reindex(rtr, fti, frs, now, data, name, rest) ==
    LET lastrest == IF rest # "" THEN Get(rtr, name) ELSE None
        restOrNone == IF rest # "" THEN Some(rest) ELSE None
        index == Cardinality(DOMAIN fti) + 1
    IN  IF lastrest = restOrNone
        THEN [register_to_rest |-> rtr, frame_to_index |-> fti,
              frames |-> frs, stored |-> FALSE]
        ELSE [register_to_rest |-> Put(rtr, name, rest),
              frame_to_index |-> Put(fti, data, index),
              frames |-> Append(frs, <<now, name, index>>),
              stored |-> TRUE]

\* _storeframe with lines 89-92 moved before the test of line 86
_storeframe_indexfirst(rtr, fti, frs, now, data, name, rest) ==
    LET lastrest == IF rest # "" THEN Get(rtr, name) ELSE None
        restOrNone == IF rest # "" THEN Some(rest) ELSE None
        known == Get(fti, data)
        index == IF known = None THEN Cardinality(DOMAIN fti) + 1
                 ELSE known[1]
        fti2 == IF known = None THEN Put(fti, data, index) ELSE fti
    IN  IF lastrest = restOrNone
        THEN [register_to_rest |-> rtr, frame_to_index |-> fti2,
              frames |-> frs, stored |-> FALSE]
        ELSE [register_to_rest |-> Put(rtr, name, rest),
              frame_to_index |-> fti2,
              frames |-> Append(frs, <<now, name, index>>),
              stored |-> TRUE]

\* _storeframe without the + 1 of line 91
_storeframe_zerobased(rtr, fti, frs, now, data, name, rest) ==
    LET lastrest == IF rest # "" THEN Get(rtr, name) ELSE None
        restOrNone == IF rest # "" THEN Some(rest) ELSE None
        known == Get(fti, data)
        index == IF known = None THEN Cardinality(DOMAIN fti) ELSE known[1]
    IN  IF lastrest = restOrNone
        THEN [register_to_rest |-> rtr, frame_to_index |-> fti,
              frames |-> frs, stored |-> FALSE]
        ELSE [register_to_rest |-> Put(rtr, name, rest),
              frame_to_index |-> IF known = None THEN Put(fti, data, index)
                                 ELSE fti,
              frames |-> Append(frs, <<now, name, index>>),
              stored |-> TRUE]

\* The store of one device after _storeframe(frame, name, rest) at time
\* now; stored says whether the frame was appended.
_storeframe(rtr, fti, frs, now, data, name, rest) ==
    LET lastrest == IF rest # "" THEN Get(rtr, name) ELSE None
        restOrNone == IF rest # "" THEN Some(rest) ELSE None
        known == Get(fti, data)
        index == IF known = None THEN Cardinality(DOMAIN fti) + 1
                 ELSE known[1]
    IN  IF lastrest = restOrNone
        THEN [register_to_rest |-> rtr, frame_to_index |-> fti,
              frames |-> frs, stored |-> FALSE]
        ELSE [register_to_rest |-> Put(rtr, name, rest),
              frame_to_index |-> IF known = None THEN Put(fti, data, index)
                                 ELSE fti,
              frames |-> Append(frs, <<now, name, index>>),
              stored |-> TRUE]

\* line 81 with basename in the place of name
StoreFrame_basename(d, f) ==
    LET name == partition(f.name, Paren)[1]
        r == _storeframe(register_to_rest[d], frame_to_index[d], frames[d],
                         clock, f.data, name, f.rest)
    IN  /\ register_to_rest' = [register_to_rest EXCEPT ![d] = r.register_to_rest]
        /\ frame_to_index' = [frame_to_index EXCEPT ![d] = r.frame_to_index]
        /\ frames' = [frames EXCEPT ![d] = r.frames]
        /\ clock' = IF r.stored THEN clock + 1 ELSE clock
        /\ lastcall' = [lastcall EXCEPT ![d] =
                           Some([data |-> f.data, name |-> name, rest |-> f.rest])]
        /\ storecalls' = [storecalls EXCEPT ![d] = @ + 1]

\* line 81: the call of _storeframe that ends process_frame, on device d
StoreFrame(d, f) ==
    LET r == _storeframe(register_to_rest[d], frame_to_index[d], frames[d],
                         clock, f.data, f.name, f.rest)
    IN  /\ register_to_rest' = [register_to_rest EXCEPT ![d] = r.register_to_rest]
        /\ frame_to_index' = [frame_to_index EXCEPT ![d] = r.frame_to_index]
        /\ frames' = [frames EXCEPT ![d] = r.frames]
        /\ clock' = IF r.stored THEN clock + 1 ELSE clock
        /\ lastcall' = [lastcall EXCEPT ![d] =
                           Some([data |-> f.data, name |-> f.name, rest |-> f.rest])]
        /\ storecalls' = [storecalls EXCEPT ![d] = @ + 1]

NoStore == UNCHANGED <<register_to_rest, frame_to_index, frames, clock,
                       lastcall, storecalls>>

-----------------------------------------------------------------------------
(* HvacMonitor.open and HvacMonitor.run                                    *)

\* what frames.StreamFactory and frames.Bus can do in one call of open():
\* both succeed, StreamFactory raises OSError, Bus raises OSError
OpenOutcomes == {"ok", "nostream", "nobus"}

\* open() with the increment of line 67 moved to its first line
open_countfirst(d, outcome) ==
    LET n == opens[d] + 1
    IN  /\ opens' = [opens EXCEPT ![d] = n]
        /\ stream' = [stream EXCEPT ![d] = IF outcome = "nostream" THEN @ ELSE n]
        /\ bus' = [bus EXCEPT ![d] = IF outcome = "ok" THEN n ELSE @]
        /\ RECONNECT_COUNT' = [RECONNECT_COUNT EXCEPT ![d] = @ + 1]
        /\ openfails' = [openfails EXCEPT ![d] =
                            IF outcome = "ok" THEN @ ELSE @ + 1]
        /\ oserrors' = IF outcome = "ok" THEN oserrors ELSE oserrors + 1

\* lines 62-67, the n-th call of open() on device d; the counter is
\* incremented last, after both constructors returned
open(d, outcome) ==
    LET n == opens[d] + 1
    IN  /\ opens' = [opens EXCEPT ![d] = n]
        /\ stream' = [stream EXCEPT ![d] = IF outcome = "nostream" THEN @ ELSE n]
        /\ bus' = [bus EXCEPT ![d] = IF outcome = "ok" THEN n ELSE @]
        /\ RECONNECT_COUNT' = [RECONNECT_COUNT EXCEPT ![d] =
                                  IF outcome = "ok" THEN @ + 1 ELSE @]
        /\ openfails' = [openfails EXCEPT ![d] =
                            IF outcome = "ok" THEN @ ELSE @ + 1]
        /\ oserrors' = IF outcome = "ok" THEN oserrors ELSE oserrors + 1

\* what the buses have done so far: frames delivered, OSErrors raised, CRC
\* errors reported
Events == SumOver(FRAME_COUNT, Devices) + oserrors + SumOver(crcs, Devices)

\* the buses may do one more thing
MayHappen == Events < MaxEvents

\* the top of an iteration without lines 134-135
LoopTop_read(s) == "read"

\* line 134, at the top of an iteration: open() again or read
LoopTop(s) == IF s = 0 THEN "reopen" ELSE "read"

\* the open() of line 131 inside the try
StartAbsorbed == "except"

\* where run() goes when the open() of line 131 raises: out of run()
StartFailed == "failed"

\* line 139 without the except clause
Uncaught == "failed"

\* line 139: where an OSError raised inside the try takes the thread
Caught == "except"

\* line 131: the open() before the loop, outside the try
Start(d) ==
    /\ pc[d] = "start"
    /\ \E outcome \in OpenOutcomes :
          /\ outcome # "ok" => MayHappen
          /\ open(d, outcome)
          /\ pc' = [pc EXCEPT ![d] = IF outcome = "ok" THEN LoopTop(stream'[d])
                                     ELSE StartFailed]
    /\ UNCHANGED <<synchronized, register_to_rest, frame_to_index, frames,
                   FRAME_COUNT, DESYNC_COUNT, DEVINFO, GAUGES, CV, created,
                   samples, cur, item, gauge, clock, crcs, lastcall,
                   storecalls, nd_in, nd_out, orch>>

\* lines 134-135: the open() inside the try, when self.stream is None
Reopen(d) ==
    /\ pc[d] = "reopen"
    /\ \E outcome \in OpenOutcomes :
          /\ outcome # "ok" => MayHappen
          /\ open(d, outcome)
          /\ pc' = [pc EXCEPT ![d] = IF outcome = "ok" THEN "read" ELSE Caught]
    /\ UNCHANGED <<synchronized, register_to_rest, frame_to_index, frames,
                   FRAME_COUNT, DESYNC_COUNT, DEVINFO, GAUGES, CV, created,
                   samples, cur, item, gauge, clock, crcs, lastcall,
                   storecalls, nd_in, nd_out, orch>>

\* line 136: self.bus.read() raises OSError
ReadError(d) ==
    /\ pc[d] = "read"
    /\ MayHappen
    /\ oserrors' = oserrors + 1
    /\ pc' = [pc EXCEPT ![d] = Caught]
    /\ UNCHANGED <<stream, bus, synchronized, register_to_rest, frame_to_index,
                   frames, FRAME_COUNT, DESYNC_COUNT, RECONNECT_COUNT, DEVINFO,
                   GAUGES, CV, created, samples, cur, item, gauge, clock,
                   opens, openfails, crcs, lastcall, storecalls, nd_in, nd_out, orch>>

\* the handler with self.synchronized = False added to line 142
HandleError_unsync(d) ==
    /\ pc[d] = "except"
    /\ stream' = [stream EXCEPT ![d] = 0]
    /\ bus' = [bus EXCEPT ![d] = 0]
    /\ synchronized' = [synchronized EXCEPT ![d] = FALSE]
    /\ pc' = [pc EXCEPT ![d] = LoopTop(stream'[d])]
    /\ UNCHANGED <<register_to_rest, frame_to_index, frames, FRAME_COUNT,
                   DESYNC_COUNT, RECONNECT_COUNT, DEVINFO, GAUGES, CV, created,
                   samples, cur, item, gauge, clock, opens, openfails,
                   oserrors, crcs, lastcall, storecalls, nd_in, nd_out, orch>>

\* lines 139-142: the handler, then back to the top of the loop
HandleError(d) ==
    /\ pc[d] = "except"
    /\ stream' = [stream EXCEPT ![d] = 0]
    /\ bus' = [bus EXCEPT ![d] = 0]
    /\ pc' = [pc EXCEPT ![d] = LoopTop(stream'[d])]
    /\ UNCHANGED <<synchronized, register_to_rest, frame_to_index, frames,
                   FRAME_COUNT, DESYNC_COUNT, RECONNECT_COUNT, DEVINFO, GAUGES,
                   CV, created, samples, cur, item, gauge, clock, opens,
                   openfails, oserrors, crcs, lastcall, storecalls, nd_in,
                   nd_out, orch>>

\* _report_crc_error without the test of line 126
_report_crc_error_always(sync, desyncs) ==
    [synchronized |-> FALSE, desyncs |-> desyncs + 1]

\* lines 125-128: the synchronized flag and the desync counter after the
\* callback
_report_crc_error(sync, desyncs) ==
    IF sync THEN [synchronized |-> FALSE, desyncs |-> desyncs + 1]
    ELSE [synchronized |-> sync, desyncs |-> desyncs]

\* the Bus calls report_crc_error while the thread is inside bus.read()
ReportCrcError(d) ==
    /\ pc[d] = "read"
    /\ MayHappen
    /\ crcs' = [crcs EXCEPT ![d] = @ + 1]
    /\ LET r == _report_crc_error(synchronized[d], DESYNC_COUNT[d])
       IN  /\ synchronized' = [synchronized EXCEPT ![d] = r.synchronized]
           /\ DESYNC_COUNT' = [DESYNC_COUNT EXCEPT ![d] = r.desyncs]
    /\ UNCHANGED <<pc, stream, bus, register_to_rest, frame_to_index, frames,
                   FRAME_COUNT, RECONNECT_COUNT, DEVINFO, GAUGES, CV, created,
                   samples, cur, item, gauge, clock, opens, openfails,
                   oserrors, lastcall, storecalls, nd_in, nd_out, orch>>

-----------------------------------------------------------------------------
(* HvacMonitor.process_frame and the guarded section of _set_gauge         *)

\* line 71 without the test of the length
PassesFilter_anylength(f) == f.func = ACK06

\* line 71
PassesFilter(f) == f.func = ACK06 /\ f.length >= 3

\* frames.ParsedFrame.get_printable_address(frame.source): the label of the
\* info series
get_printable_address(source) == <<"device", source>>

\* lines 79-80 with 96-98: the first position from i on in values.items()
\* whose value is not a str, 0 if there is none; _set_gauge returns at once
\* for the others
NextNumeric(values, i) ==
    LET rest == {j \in i..Len(values) : ~values[j][2].str}
    IN  IF rest = {} THEN 0 ELSE CHOOSE j \in rest : \A k \in rest : j <= k

\* what _set_gauge derives for the item device d is at
CurDerived(d) ==
    LET f == cur[d]
        basename == partition(f.name, Paren)[1]
        kv == f.values[item[d]]
    IN  Derive(TABLE_NAME_MAP(basename), kv[1], kv[2].num)

\* line 118 without the with statement
CVIgnored == TRUE

\* line 118: HvacMonitor.CV can be taken
CVFree == CV = None

\* lines 136-138 and 69-81: bus.read() returns frame f; process_frame runs
\* to its end, or to the first _set_gauge that has to take the lock
ReadFrame(d, f) ==
    /\ pc[d] = "read"
    /\ MayHappen
    /\ FRAME_COUNT' = [FRAME_COUNT EXCEPT ![d] = @ + 1]
    /\ synchronized' = [synchronized EXCEPT ![d] = TRUE]
    /\ LET basename == partition(f.name, Paren)[1]
           first == NextNumeric(f.values, 1)
       IN  IF ~PassesFilter(f)
           THEN /\ pc' = [pc EXCEPT ![d] = LoopTop(stream[d])]
                /\ NoStore
                /\ UNCHANGED <<DEVINFO, cur, item>>
           ELSE IF f.values # <<>> /\ basename = DeviceInfo
           THEN /\ DEVINFO' = Put(DEVINFO,
                                  <<d, get_printable_address(f.source)>>,
                                  f.values)
                /\ StoreFrame(d, f)
                /\ pc' = [pc EXCEPT ![d] = LoopTop(stream[d])]
                /\ UNCHANGED <<cur, item>>
           ELSE IF f.values # <<>> /\ first # 0
           THEN /\ cur' = [cur EXCEPT ![d] = f]
                /\ item' = [item EXCEPT ![d] = first]
                /\ pc' = [pc EXCEPT ![d] = "gauge"]
                /\ NoStore
                /\ UNCHANGED DEVINFO
           ELSE /\ StoreFrame(d, f)
                /\ pc' = [pc EXCEPT ![d] = LoopTop(stream[d])]
                /\ UNCHANGED <<DEVINFO, cur, item>>
    /\ UNCHANGED <<stream, bus, DESYNC_COUNT, RECONNECT_COUNT, GAUGES, CV,
                   created, samples, gauge, opens, openfails, oserrors, crcs,
                   nd_in, nd_out, orch>>

\* lines 118-119: take the lock, look the gauge up
SetGaugeEnter(d) ==
    /\ pc[d] = "gauge"
    /\ CVFree
    /\ CV' = Some(d)
    /\ gauge' = [gauge EXCEPT ![d] = Get(GAUGES, CurDerived(d).gaugename)]
    /\ pc' = [pc EXCEPT ![d] = "locked"]
    /\ UNCHANGED <<stream, bus, synchronized, register_to_rest, frame_to_index,
                   frames, FRAME_COUNT, DESYNC_COUNT, RECONNECT_COUNT, DEVINFO,
                   GAUGES, created, samples, cur, item, clock, opens,
                   openfails, oserrors, crcs, lastcall, storecalls, nd_in,
                   nd_out, orch>>

\* lines 120-123: create and register the gauge if there was none, set the
\* value under this device's label, release the lock; then the thread is at
\* the next numeric item of the frame, or before line 81 after the last
SetGaugeLeave(d) ==
    /\ pc[d] = "locked"
    /\ LET g == CurDerived(d)
           new == gauge[d] = None
           obj == IF new THEN Len(created) + 1 ELSE gauge[d][1]
           next == NextNumeric(cur[d].values, item[d] + 1)
       IN  /\ created' = IF new THEN Append(created, g.gaugename) ELSE created
           /\ GAUGES' = IF new THEN Put(GAUGES, g.gaugename, obj) ELSE GAUGES
           /\ samples' = IF new THEN Append(samples, Put(<<>>, d, g.value))
                         ELSE [samples EXCEPT ![obj] = Put(@, d, g.value)]
           /\ CV' = None
           /\ gauge' = [gauge EXCEPT ![d] = None]
           /\ IF next # 0
              THEN /\ item' = [item EXCEPT ![d] = next]
                   /\ pc' = [pc EXCEPT ![d] = "gauge"]
              ELSE /\ item' = item
                   /\ pc' = [pc EXCEPT ![d] = "store"]
    /\ NoStore
    /\ UNCHANGED <<stream, bus, synchronized, FRAME_COUNT, DESYNC_COUNT,
                   RECONNECT_COUNT, DEVINFO, cur, opens, openfails, oserrors,
                   crcs, nd_in, nd_out, orch>>

\* line 81 after the loop of lines 79-80, the lock released: _storeframe,
\* and process_frame returns to the loop of run()
StoreAfterGauges(d) ==
    /\ pc[d] = "store"
    /\ StoreFrame(d, cur[d])
    /\ cur' = [cur EXCEPT ![d] = NoFrame]
    /\ item' = [item EXCEPT ![d] = 0]
    /\ pc' = [pc EXCEPT ![d] = LoopTop(stream[d])]
    /\ UNCHANGED <<stream, bus, synchronized, FRAME_COUNT, DESYNC_COUNT,
                   RECONNECT_COUNT, DEVINFO, GAUGES, CV, created, samples,
                   gauge, opens, openfails, oserrors, crcs, nd_in, nd_out,
                   orch>>

-----------------------------------------------------------------------------
(* Exceptions that are not OSError: the except clause of line 139 does not *)
(* catch them, they leave run() and the thread of the device ends.         *)

\* where the thread of a device is after an exception left run(): raised by
\* parse_register (line 72), raised by the Gauge constructor (line 121)
RaisedAt72 == "raised at 72"
RaisedAt121 == "raised at 121"

\* lines 136-138 and 70-72: bus.read() returns frame f, which passes the
\* filter, and parse_register raises
ProcessRaise(d, f) ==
    /\ pc[d] = "read"
    /\ MayHappen
    /\ PassesFilter(f)
    /\ FRAME_COUNT' = [FRAME_COUNT EXCEPT ![d] = @ + 1]
    /\ synchronized' = [synchronized EXCEPT ![d] = TRUE]
    /\ pc' = [pc EXCEPT ![d] = RaisedAt72]
    /\ UNCHANGED <<stream, bus, register_to_rest, frame_to_index, frames,
                   DESYNC_COUNT, RECONNECT_COUNT, DEVINFO, GAUGES, CV, created,
                   samples, cur, item, gauge, clock, opens, openfails,
                   oserrors, crcs, lastcall, storecalls, nd_in, nd_out, orch>>

\* line 121 raising with the lock kept by the thread that ends
GaugeRaise_locked(d) ==
    /\ pc[d] = "locked"
    /\ gauge[d] = None
    /\ gauge' = [gauge EXCEPT ![d] = None]
    /\ cur' = [cur EXCEPT ![d] = NoFrame]
    /\ item' = [item EXCEPT ![d] = 0]
    /\ pc' = [pc EXCEPT ![d] = RaisedAt121]
    /\ UNCHANGED <<stream, bus, synchronized, register_to_rest, frame_to_index,
                   frames, FRAME_COUNT, DESYNC_COUNT, RECONNECT_COUNT, DEVINFO,
                   GAUGES, CV, created, samples, clock, opens, openfails,
                   oserrors, crcs, lastcall, storecalls, nd_in, nd_out, orch>>

\* lines 118-121: there was no gauge of the name and the Gauge constructor
\* raises; the with statement releases the lock on the way out, nothing was
\* registered or set, line 81 is not reached
GaugeRaise(d) ==
    /\ pc[d] = "locked"
    /\ gauge[d] = None
    /\ CV' = None
    /\ gauge' = [gauge EXCEPT ![d] = None]
    /\ cur' = [cur EXCEPT ![d] = NoFrame]
    /\ item' = [item EXCEPT ![d] = 0]
    /\ pc' = [pc EXCEPT ![d] = RaisedAt121]
    /\ UNCHANGED <<stream, bus, synchronized, register_to_rest, frame_to_index,
                   frames, FRAME_COUNT, DESYNC_COUNT, RECONNECT_COUNT, DEVINFO,
                   GAUGES, created, samples, clock, opens, openfails,
                   oserrors, crcs, lastcall, storecalls, nd_in, nd_out, orch>>

-----------------------------------------------------------------------------
(* Finitude and main.  A configuration is a dict with the keys it has:    *)
(* port (a number) and listeners (a dict name -> path).                    *)

\* the port of line 150
DefaultPort == 8000

Paths == {"/dev/ttyUSB0", "telnet://gw:23"}

\* the dicts name -> path over some of the devices, the empty one included
ListenerDicts == UNION {[D -> Paths] : D \in SUBSET Devices}

\* what yaml.safe_load(...) or {} of line 172 can leave in config
Configs ==
    {<<>>}
        \cup {[port |-> p] : p \in {0, DefaultPort, 9100}}
        \cup {[listeners |-> l] : l \in ListenerDicts}
        \cup {[port |-> p, listeners |-> l] :
                   p \in {0, DefaultPort, 9100}, l \in ListenerDicts}

\* lines 146-150: self.config after Finitude.__init__(config)
Finitude__init__(cfg) ==
    LET port == Get(cfg, "port")
    IN  IF port = None \/ port = Some(0) THEN Put(cfg, "port", DefaultPort)
        ELSE cfg

\* lines 152-156: the port start_http_server(port) serves on
start_http_server(cfg, port) == IF port = 0 THEN cfg["port"] ELSE port

\* lines 159-160: start_listeners(listeners) raises KeyError at line 160
\* when listeners is empty and self.config has no key 'listeners';
\* otherwise listeners is the dict the loop of line 161 goes through
start_listeners(cfg, listeners) ==
    IF listeners = <<>> /\ "listeners" \notin DOMAIN cfg
    THEN [raised |-> TRUE, listeners |-> <<>>]
    ELSE [raised |-> FALSE,
          listeners |-> IF listeners = <<>> THEN cfg["listeners"]
                        ELSE listeners]

\* the orders in which .items() can yield the names of a dict: a dict
\* keeps the order of insertion, which for the listeners of a configuration
\* is the order the file lists them in
ItemsOrders(dict) ==
    {o \in [1..Cardinality(DOMAIN dict) -> DOMAIN dict] :
        \A i, j \in DOMAIN o : i # j => o[i] # o[j]}

\* main is at line 161, about to go through the listeners of a
\* configuration that lists every device
InitListening ==
    /\ loaded = [listeners |-> [d \in Devices |-> "/dev/ttyUSB0"]]
    /\ listed \in ItemsOrders(loaded["listeners"])
    /\ config = Finitude__init__(loaded)
    /\ step = "listening"
    /\ served = DefaultPort
    /\ larg = <<>>
    /\ monitors = <<>>

\* main has run to its end for that configuration
InitStarted ==
    /\ loaded = [listeners |-> [d \in Devices |-> "/dev/ttyUSB0"]]
    /\ listed \in ItemsOrders(loaded["listeners"])
    /\ config = Finitude__init__(loaded)
    /\ step = "done"
    /\ served = DefaultPort
    /\ larg = <<>>
    /\ monitors = config["listeners"]

-----------------------------------------------------------------------------
(* The program: one thread per device.                                     *)

\* the class attributes of HvacMonitor as the import leaves them, and the
\* fields a monitor has when it is made (lines 52-57)
InitFields ==
    /\ stream = [d \in Devices |-> 0]
    /\ bus = [d \in Devices |-> 0]
    /\ synchronized = [d \in Devices |-> FALSE]
    /\ register_to_rest = [d \in Devices |-> <<>>]
    /\ frame_to_index = [d \in Devices |-> <<>>]
    /\ frames = [d \in Devices |-> <<>>]
    /\ FRAME_COUNT = [d \in Devices |-> 0]
    /\ DESYNC_COUNT = [d \in Devices |-> 0]
    /\ RECONNECT_COUNT = [d \in Devices |-> 0]
    /\ DEVINFO = <<>>
    /\ GAUGES = <<>>
    /\ CV = None
    /\ created = <<>>
    /\ samples = <<>>
    /\ cur = [d \in Devices |-> NoFrame]
    /\ item = [d \in Devices |-> 0]
    /\ gauge = [d \in Devices |-> None]
    /\ clock = 1
    /\ opens = [d \in Devices |-> 0]
    /\ openfails = [d \in Devices |-> 0]
    /\ oserrors = 0
    /\ crcs = [d \in Devices |-> 0]
    /\ lastcall = [d \in Devices |-> None]
    /\ storecalls = [d \in Devices |-> 0]

\* no HvacMonitor made yet
InitNoMonitor ==
    /\ pc = [d \in Devices |-> "none"]
    /\ InitFields

\* HvacMonitor.__init__ done for every device, no thread has run
InitMonitors ==
    /\ pc = [d \in Devices |-> "start"]
    /\ InitFields

\* what the HvacMonitors and the name derivation own, but for pc
hvac == <<stream, bus, synchronized, register_to_rest, frame_to_index,
          frames, FRAME_COUNT, DESYNC_COUNT, RECONNECT_COUNT, DEVINFO,
          GAUGES, CV, created, samples, cur, item, gauge, clock, opens,
          openfails, oserrors, crcs, lastcall, storecalls, nd_in, nd_out>>

\* the dict the loop of line 161 goes through
Listeners == start_listeners(config, larg).listeners

\* lines 161-163, one iteration, for the next name of the loop:
\* HvacMonitor(name, path) and the start of its thread, which is then at
\* the first line of run()
StartListener(d) ==
    /\ step = "listening"
    /\ d \in DOMAIN Listeners
    /\ d \notin DOMAIN monitors
    /\ \E i \in DOMAIN listed :
           /\ listed[i] = d
           /\ \A j \in 1..(i - 1) : listed[j] \in DOMAIN monitors
    /\ monitors' = Put(monitors, d, Listeners[d])
    /\ pc' = [pc EXCEPT ![d] = "start"]
    /\ UNCHANGED <<loaded, listed, config, step, served, larg, hvac>>

\* the loop of line 161 has had every item: start_listeners returns
ReturnListeners ==
    /\ step = "listening"
    /\ DOMAIN monitors = DOMAIN Listeners
    /\ step' = "done"
    /\ UNCHANGED <<loaded, listed, config, served, larg, monitors, pc, hvac>>

\* one step of main inside start_listeners
StepMain == (\E d \in Devices : StartListener(d)) \/ ReturnListeners

Init ==
    /\ InitNoMonitor
    /\ InitListening
    /\ nd_in = <<>>
    /\ nd_out = None

\* one step of the thread of device d, the bus delivering frames of F
Step(d, F) ==
    \/ Start(d)
    \/ Reopen(d)
    \/ ReadError(d)
    \/ HandleError(d)
    \/ ReportCrcError(d)
    \/ \E f \in F : ReadFrame(d, f)
    \/ SetGaugeEnter(d)
    \/ SetGaugeLeave(d)
    \/ StoreAfterGauges(d)

Next == StepMain \/ \E d \in Devices : Step(d, BusFrames)

Spec == Init /\ [][Next]_vars

\* the frames the buses deliver where the supervisor alone is looked at: one
\* that is stored, one that sets a gauge, one that is filtered out
LiveFrames == {f \in BusFrames : f.data \in {"P1", "P3", "P5"}}

NextLive == StepMain \/ \E d \in Devices : Step(d, LiveFrames)

\* A thread that can run does: the handler's sleep returns and the open()
\* that follows returns or raises.
SpecLive ==
    /\ Init
    /\ [][NextLive]_vars
    /\ \A d \in Devices : WF_vars(HandleError(d)) /\ WF_vars(Reopen(d))

\* the program with frames and gauges that make the code raise
NextFault ==
    \/ StepMain
    \/ \E d \in Devices :
           \/ Step(d, LiveFrames)
           \/ \E f \in LiveFrames : ProcessRaise(d, f)
           \/ GaugeRaise(d)

SpecFault == Init /\ [][NextFault]_vars

-----------------------------------------------------------------------------
(* main from line 172 on, for every configuration, and the threads it     *)
(* starts.                                                                 *)

\* line 172 has run
InitMain ==
    /\ InitNoMonitor
    /\ nd_in = <<>>
    /\ nd_out = None
    /\ loaded \in Configs
    /\ listed \in ItemsOrders(IF "listeners" \in DOMAIN loaded
                               THEN loaded["listeners"] ELSE <<>>)
    /\ config = loaded
    /\ step = "main"
    /\ served = 0
    /\ larg = <<>>
    /\ monitors = <<>>

\* line 177: f = Finitude(config)
Construct ==
    /\ step = "main"
    /\ config' = Finitude__init__(config)
    /\ step' = "constructed"
    /\ UNCHANGED <<loaded, listed, served, larg, monitors, pc, hvac>>

\* line 178: f.start_http_server()
StartHttpServer ==
    /\ step = "constructed"
    /\ served' = start_http_server(config, 0)
    /\ step' = "serving"
    /\ UNCHANGED <<loaded, listed, config, larg, monitors, pc, hvac>>

\* line 179 and lines 159-160: f.start_listeners(), and the same call with
\* an argument, up to the loop
EnterListeners ==
    /\ step = "serving"
    /\ \E listeners \in {<<>>, [hp1 |-> "/dev/ttyUSB0"]} :
          /\ larg' = listeners
          /\ listed' \in IF listeners = <<>> THEN {listed}
                         ELSE ItemsOrders(listeners)
          /\ step' = IF start_listeners(config, listeners).raised
                     THEN "KeyError" ELSE "listening"
    /\ UNCHANGED <<loaded, config, served, monitors, pc, hvac>>

NextMain ==
    \/ Construct
    \/ StartHttpServer
    \/ EnterListeners
    \/ StepMain
    \/ \E d \in Devices : Step(d, BusFrames)

SpecMain == InitMain /\ [][NextMain]_vars

-----------------------------------------------------------------------------
(* The name derivation of _set_gauge run alone on bounded inputs.          *)

Fan == <<"F", "a", "n">>
Parts == {Fan, <<"X">>, Times7, Times16, RPM, CFM}

\* the item names made of at most n parts
RECURSIVE ItemNames(_)
ItemNames(n) ==
    IF n = 0 THEN {<<>>}
    ELSE LET shorter == ItemNames(n - 1)
         IN  shorter \cup {a \o p : a \in shorter, p \in Parts}

NdInputs ==
    [monitor : Devices,
     tablename : {<<>>, heatpump, Zone},
     itemname : ItemNames(MaxParts) \ {<<>>},
     v : {35, 160}]

InitName ==
    /\ InitMonitors
    /\ InitStarted
    /\ nd_in \in NdInputs
    /\ nd_out = None

\* lines 95-123: one call _set_gauge(tablename, itemname, v) on a monitor,
\* v a number, with no other thread about: the name and the value are
\* derived, the lock is taken, the gauge is made and registered if there was
\* none, the value is set under the label of the monitor, the lock is
\* released
DeriveName ==
    /\ nd_out = None
    /\ CVFree
    /\ LET g == Derive(nd_in.tablename, nd_in.itemname, nd_in.v)
           known == Get(GAUGES, g.gaugename)
           new == known = None
           obj == IF new THEN Len(created) + 1 ELSE known[1]
       IN  /\ nd_out' = Some(g)
           /\ created' = IF new THEN Append(created, g.gaugename) ELSE created
           /\ GAUGES' = IF new THEN Put(GAUGES, g.gaugename, obj) ELSE GAUGES
           /\ samples' = IF new
                         THEN Append(samples, Put(<<>>, nd_in.monitor, g.value))
                         ELSE [samples EXCEPT
                                  ![obj] = Put(@, nd_in.monitor, g.value)]
    /\ UNCHANGED <<pc, stream, bus, synchronized, register_to_rest,
                   frame_to_index, frames, FRAME_COUNT, DESYNC_COUNT,
                   RECONNECT_COUNT, DEVINFO, CV, cur, item, gauge, clock,
                   opens, openfails, oserrors, crcs, lastcall, storecalls,
                   nd_in, orch>>

NextName == DeriveName

SpecName == InitName /\ [][NextName]_vars

-----------------------------------------------------------------------------
(* The frame store (claims C1 to C4).                                      *)

\* this step is a call of _storeframe on device d
StoreCalled(d) == storecalls'[d] = storecalls[d] + 1

\* the arguments of the call this step makes
CallArgs(d) == lastcall'[d][1]

\* the call this step makes is a change of state of its register: its rest
\* is not empty and is not the rest last stored for the name
IsChange(d) ==
    /\ CallArgs(d).rest # ""
    /\ Get(register_to_rest[d], CallArgs(d).name) # Some(CallArgs(d).rest)

StoreUnchanged(d) ==
    /\ register_to_rest'[d] = register_to_rest[d]
    /\ frame_to_index'[d] = frame_to_index[d]
    /\ frames'[d] = frames[d]

\* C1: a call of _storeframe appends at most one entry, and a call with the
\* arguments of the call before it on the same device changes neither the
\* sequence nor the index map nor the last rests; so N identical calls in a
\* row append at most one entry in total.
C1_DuplicateCollapse ==
    [][\A d \in Devices :
          StoreCalled(d) =>
              /\ Len(frames'[d]) <= Len(frames[d]) + 1
              /\ lastcall'[d] = lastcall[d] => StoreUnchanged(d)]_vars

\* three calls with frame P1 in a row on one device, one entry in the log
C1_Witness ==
    \E d \in Devices :
        /\ storecalls[d] = 3
        /\ FRAME_COUNT[d] = 3
        /\ lastcall[d] = Some([data |-> "P1", name |-> Zone1, rest |-> "on"])
        /\ DOMAIN frame_to_index[d] = {"P1"}
        /\ Len(frames[d]) = 1
        /\ DOMAIN GAUGES = {}
        /\ DOMAIN DEVINFO = {}

\* C2 as claimed: a call that is not in the no-op case (rest non-empty and
\* equal to the last stored one, or both empty or absent) stores the new rest
\* for the name and appends exactly one entry; this makes an empty rest after
\* a non-empty one a recorded change.
C2_RecordsEmptyRest ==
    [][\A d \in Devices :
          StoreCalled(d) =>
              LET a == CallArgs(d)
                  last == Get(register_to_rest[d], a.name)
                  noop == \/ a.rest # "" /\ last = Some(a.rest)
                          \/ a.rest = "" /\ (last = None \/ last = Some(""))
              IN  ~noop =>
                      /\ Get(register_to_rest'[d], a.name) = Some(a.rest)
                      /\ Len(frames'[d]) = Len(frames[d]) + 1]_vars

\* C2 amended: a call whose rest is non-empty and differs from the rest last
\* stored for the name (or the name has none) stores the new rest for the
\* name and appends exactly one entry (time, name, index of the payload); any
\* other call, every call with an empty rest among them, changes nothing.
C2_TransitionRecorded ==
    [][\A d \in Devices :
          StoreCalled(d) =>
              LET a == CallArgs(d)
              IN  IF IsChange(d)
                  THEN /\ register_to_rest'[d] =
                              Put(register_to_rest[d], a.name, a.rest)
                       /\ a.data \in DOMAIN frame_to_index'[d]
                       /\ frames'[d] =
                              Append(frames[d],
                                     <<clock, a.name, frame_to_index'[d][a.data]>>)
                  ELSE StoreUnchanged(d)]_vars

\* the rest of Zone(1) went "on", then empty: the empty one was not stored
C2_Witness ==
    \E d \in Devices :
        /\ lastcall[d] = Some([data |-> "P3", name |-> Zone1, rest |-> ""])
        /\ Get(register_to_rest[d], Zone1) = Some("on")
        /\ Len(frames[d]) = 1

\* the highest index handed out, 0 if none
MaxIndex(fti) ==
    IF DOMAIN fti = {} THEN 0
    ELSE LET top == CHOOSE p \in DOMAIN fti :
                        \A q \in DOMAIN fti : fti[q] <= fti[p]
         IN  fti[top]

\* C3: a payload in the index map keeps its index in every step; a step adds
\* at most one payload, only in a call of _storeframe with that payload, and
\* gives it the highest index so far plus one; an appended entry carries the
\* index the map has for its payload.
C3_IndexStable ==
    [][\A d \in Devices :
          LET old == frame_to_index[d]
              new == frame_to_index'[d]
              added == (DOMAIN new) \ (DOMAIN old)
          IN  /\ \A p \in DOMAIN old : p \in DOMAIN new /\ new[p] = old[p]
              /\ Cardinality(added) <= 1
              /\ \A p \in added :
                    /\ StoreCalled(d)
                    /\ CallArgs(d).data = p
                    /\ new[p] = MaxIndex(old) + 1
              /\ frames'[d] # frames[d] =>
                    /\ StoreCalled(d)
                    /\ frames'[d][Len(frames'[d])][3] = new[CallArgs(d).data]
                    /\ CallArgs(d).data \in DOMAIN old =>
                          frames'[d][Len(frames'[d])][3] = old[CallArgs(d).data]]_vars

\* P1, P2, P1 were stored: the third entry reuses the index of the first
C3_Witness ==
    \E d \in Devices :
        /\ Len(frames[d]) = 3
        /\ DOMAIN frame_to_index[d] = {"P1", "P2"}
        /\ frames[d][1][3] = 1
        /\ frames[d][2][3] = 2
        /\ frames[d][3][3] = 1

\* C4 as claimed: the payload of the frame last handed to _storeframe is a
\* key of the index map, whether the frame was a change of state or not.
C4_IndexedOnFirstSight ==
    \A d \in Devices :
        lastcall[d] # None => lastcall[d][1].data \in DOMAIN frame_to_index[d]

\* C4 amended: a call of _storeframe that is a change of state of its
\* register leaves the frame's payload a key of the index map; a call that is
\* not leaves the map as it was, so a payload first seen in such a frame has
\* no index.
C4_IndexedWhenStored ==
    [][\A d \in Devices :
          StoreCalled(d) =>
              IF IsChange(d)
              THEN CallArgs(d).data \in DOMAIN frame_to_index'[d]
              ELSE frame_to_index'[d] = frame_to_index[d]]_vars

\* P1 was stored and indexed, P3 (empty rest) was handed over and is not
C4_Witness ==
    \E d \in Devices :
        /\ lastcall[d] = Some([data |-> "P3", name |-> Zone1, rest |-> ""])
        /\ DOMAIN frame_to_index[d] = {"P1"}

-----------------------------------------------------------------------------
(* The synchronized flag (claim C5).                                       *)

\* C5: in every step the desync counter of a device grows by one if the
\* device goes from synchronized to unsynchronized and stays as it is
\* otherwise, and only the CRC-error callback takes a device out of
\* synchronization.
C5_DesyncDebounced ==
    [][\A d \in Devices :
          LET falls == synchronized[d] /\ ~synchronized'[d]
          IN  /\ DESYNC_COUNT'[d] = DESYNC_COUNT[d] + (IF falls THEN 1 ELSE 0)
              /\ falls => crcs'[d] = crcs[d] + 1]_vars

\* one frame and two CRC errors on one device, one desync counted
C5_Witness ==
    \E d \in Devices :
        /\ FRAME_COUNT[d] = 1
        /\ crcs[d] = 2
        /\ DESYNC_COUNT[d] = 1
        /\ ~synchronized[d]

-----------------------------------------------------------------------------
(* The connection supervisor (claims C6 to C8).                            *)

\* the first open() of device d has returned
Started(d) == pc[d] \notin {"none", "start", "failed"}

\* C6 as claimed, for a device whose first open() has returned: the
\* reconnect counter is the number of calls of open() made for it so far,
\* the first one and every one that followed an OSError.
C6_CountsAttempts ==
    \A d \in Devices : Started(d) => RECONNECT_COUNT[d] = opens[d]

\* C6 amended: the reconnect counter of a device is the number of calls of
\* open() that returned (stream and bus both made); a call that raised is
\* not counted; the counter grows by one exactly in the steps that give the
\* device a new bus.
C6_CountsOpens ==
    /\ [](\A d \in Devices : RECONNECT_COUNT[d] = opens[d] - openfails[d])
    /\ [][\A d \in Devices :
             RECONNECT_COUNT'[d] =
                 RECONNECT_COUNT[d]
                     + (IF bus'[d] # bus[d] /\ bus'[d] # 0 THEN 1 ELSE 0)]_vars

\* first open, a read error, a reopen that raised, a reopen that returned
C6_Witness ==
    \E d \in Devices :
        /\ opens[d] = 3
        /\ openfails[d] = 1
        /\ RECONNECT_COUNT[d] = 2
        /\ pc[d] = "read"

\* C7: once the first open() has returned the thread is never ended by an
\* OSError; the handler leaves stream and bus None and takes the thread to
\* the open() of line 135; a thread there leaves only by a call of open();
\* and after every OSError the thread gets there and makes that call,
\* however many there were before.
C7_Recovers ==
    /\ [][\A d \in Devices : Started(d) => Started(d)']_vars
    /\ [][\A d \in Devices :
             pc[d] = "except" /\ pc'[d] # "except" =>
                 stream'[d] = 0 /\ bus'[d] = 0 /\ pc'[d] = "reopen"]_vars
    /\ [][\A d \in Devices :
             pc[d] = "reopen" /\ pc'[d] # "reopen" =>
                 opens'[d] = opens[d] + 1]_vars
    /\ \A d \in Devices :
          /\ (pc[d] = "except") ~> (pc[d] = "reopen")
          /\ (pc[d] = "reopen") ~> (pc[d] # "reopen")

\* a device reading again after two OSErrors and two more calls of open()
C7_Witness ==
    \E d \in Devices :
        /\ pc[d] = "read"
        /\ opens[d] = 3
        /\ oserrors = 2
        /\ stream[d] = 3
        /\ bus[d] = 3

\* C8: a device whose first open() raised has left run(): it made one call
\* of open(), read no frame, and stays where it is; and a first open() that
\* raises always takes the device there.
C8_FailFast ==
    /\ [](\A d \in Devices :
             pc[d] = "failed" =>
                 opens[d] = 1 /\ FRAME_COUNT[d] = 0 /\ RECONNECT_COUNT[d] = 0)
    /\ [][\A d \in Devices :
             pc[d] = "failed" =>
                 pc'[d] = "failed" /\ opens'[d] = opens[d]
                     /\ FRAME_COUNT'[d] = FRAME_COUNT[d]]_vars
    /\ [][\A d \in Devices :
             pc[d] = "start" /\ openfails'[d] # openfails[d] =>
                 pc'[d] = "failed"]_vars

\* one device out of run() after its first open() raised, while the buses
\* went on to the end of the budget
C8_Witness ==
    \E d \in Devices :
        /\ pc[d] = "failed"
        /\ opens[d] = 1
        /\ oserrors = 1
        /\ Events = MaxEvents

-----------------------------------------------------------------------------
(* The gauge registry (claim C9).                                          *)

\* C9: no two Gauge objects were made for one name; GAUGES maps exactly the
\* names of the objects made, each to its object; at most one thread is in
\* the guarded section and it holds the lock; an entry of GAUGES is never
\* replaced or removed; and a thread leaving the guarded section has set its
\* value under its own label of the registered gauge and changed no other
\* label.
C9_OneGaugePerKey ==
    /\ [](/\ \A i, j \in 1..Len(created) : created[i] = created[j] => i = j
          /\ DOMAIN GAUGES = {created[i] : i \in 1..Len(created)}
          /\ \A k \in DOMAIN GAUGES : created[GAUGES[k]] = k
          /\ Cardinality({d \in Devices : pc[d] = "locked"}) <= 1
          /\ \A d \in Devices : pc[d] = "locked" <=> CV = Some(d))
    /\ [][\A k \in DOMAIN GAUGES :
             k \in DOMAIN GAUGES' /\ GAUGES'[k] = GAUGES[k]]_vars
    /\ [][\A d \in Devices :
             pc[d] = "locked" /\ pc'[d] # "locked" =>
                 LET g == CurDerived(d)
                     obj == GAUGES'[g.gaugename]
                 IN  /\ samples'[obj][d] = g.value
                     /\ \A o \in 1..Len(samples) : \A e \in DOMAIN samples[o] :
                           (o # obj \/ e # d) =>
                               /\ e \in DOMAIN samples'[o]
                               /\ samples'[o][e] = samples[o][e]]_vars

\* both devices have set the value of the same gauge, made once
C9_Witness ==
    /\ Len(created) = 1
    /\ DOMAIN samples[1] = Devices
    /\ \A d \in Devices : samples[1][d] = [num |-> 700, den |-> 1]
    /\ \A d \in Devices : FRAME_COUNT[d] = 1

-----------------------------------------------------------------------------
(* The suffix rule (claim C10).                                            *)

EndsWith(s, suffix) ==
    /\ Len(s) >= Len(suffix)
    /\ SubSeq(s, Len(s) - Len(suffix) + 1, Len(s)) = suffix

DropSuffix(s, suffix) == SubSeq(s, 1, Len(s) - Len(suffix))

\* C10: an item name that ends with Times7 loses exactly that suffix and has
\* divisor 7; otherwise one that ends with Times16 loses that suffix and has
\* divisor 16; otherwise name and divisor 1 are as they were; the value
\* stored is the value divided by that divisor.
C10_SuffixRule ==
    nd_out # None =>
        LET name == nd_in.itemname
            out == nd_out[1]
            want == IF EndsWith(name, Times7)
                    THEN [itemname |-> DropSuffix(name, Times7), divisor |-> 7]
                    ELSE IF EndsWith(name, Times16)
                    THEN [itemname |-> DropSuffix(name, Times16), divisor |-> 16]
                    ELSE [itemname |-> name, divisor |-> 1]
        IN  /\ out.stripped = want.itemname
            /\ out.divisor = want.divisor
            /\ out.value = Divide(nd_in.v, want.divisor)

-----------------------------------------------------------------------------
(* The unit rewrite (claim C11).                                           *)

\* s contains w
Contains(s, w) == Find(s, w) # 0

\* the text of s before the first w, and after it
Before(s, w) == SubSeq(s, 1, Find(s, w) - 1)
After(s, w) == SubSeq(s, Find(s, w) + Len(w), Len(s))

\* the token of the unit rewrite in s: RPM if s contains it, else CFM
Token(s) == IF Contains(s, RPM) THEN RPM ELSE CFM
HasToken(s) == Contains(s, RPM) \/ Contains(s, CFM)

\* pre, token, post joined with an underscore at each non-empty side
Joined(pre, token, post) ==
    (IF pre = <<>> THEN <<>> ELSE pre \o <<"_">>)
        \o token
        \o (IF post = <<>> THEN <<>> ELSE <<"_">> \o post)

\* C11 as claimed: an item name that contains RPM, or else CFM, is rewritten
\* to the lower-cased form, all of it, with an underscore between the token
\* and a non-empty prefix or suffix (FanRPM to fan_rpm), whatever the table
\* alias is.
C11_AllLowered ==
    nd_out # None /\ HasToken(nd_out[1].stripped) =>
        LET s == nd_out[1].stripped
            t == Token(s)
        IN  nd_out[1].itemname = lower(Joined(Before(s, t), t, After(s, t)))

\* C11: an item name that contains RPM, or else CFM, is rewritten by
\* lower-casing that token alone, at its first occurrence, with an underscore
\* between it and a non-empty prefix or suffix; prefix and suffix keep their
\* letters as they are (FanRPM to Fan_rpm), whatever the table alias is; a
\* name with neither token is not rewritten.
C11_TokenLowered ==
    nd_out # None =>
        LET s == nd_out[1].stripped
            t == Token(s)
        IN  nd_out[1].itemname =
                IF HasToken(s)
                THEN Joined(Before(s, t), lower(t), After(s, t))
                ELSE s

\* FanRPM under the empty alias: the item name is Fan_rpm
C11_Witness ==
    /\ nd_in.tablename = <<>>
    /\ nd_in.itemname = Fan \o RPM
    /\ nd_out # None
    /\ nd_out[1].itemname = <<"F", "a", "n", "_", "r", "p", "m">>

-----------------------------------------------------------------------------
(* The gauge key (claim C12).                                              *)

\* C12: with a non-empty table alias the gauge key is finitude_, the alias,
\* an underscore and the item name, all of it in lower case, so that no
\* upper-case letter is left in the key, also for an alias that is a table
\* name passed through; with the empty alias the key is finitude_ and the
\* item name with its letters as they are.
C12_KeyCase ==
    nd_out # None =>
        LET t == nd_in.tablename
            i == nd_out[1].itemname
            k == nd_out[1].gaugename
        IN  IF t # <<>>
            THEN /\ k = lower(FinitudePrefix \o t \o Underscore \o i)
                 /\ \A n \in 1..Len(k) : \A u \in 1..Len(UPPER) :
                        k[n] # UPPER[u]
            ELSE k = FinitudePrefix \o i

-----------------------------------------------------------------------------
(* The frame filter (claim C13).                                           *)

\* C13: process_frame on a frame whose function code is not ACK06 or whose
\* length is below 3 sets the synchronized flag of its device and changes
\* nothing else: not the last rests, the index map, the log, the gauge
\* registry or the info series (nor the connection, the lock or the other
\* counters), and raises nothing: the thread is back at the read.
C13_FilteredIgnored ==
    [][\A d \in Devices : \A f \in BusFrames :
          ReadFrame(d, f) /\ (f.func # ACK06 \/ f.length < 3) =>
              /\ synchronized'[d] = TRUE
              /\ \A e \in Devices \ {d} : synchronized'[e] = synchronized[e]
              /\ pc'[d] = "read"
              /\ UNCHANGED <<register_to_rest, frame_to_index, frames,
                             GAUGES, created, samples, DEVINFO, CV, stream,
                             bus, DESYNC_COUNT, RECONNECT_COUNT, storecalls,
                             lastcall, clock>>]_vars

\* a device that lost synchronisation is synchronized again by its second
\* frame, and both its frames were filtered out: nothing stored, no gauge
C13_Witness ==
    \E d \in Devices :
        /\ FRAME_COUNT[d] = 2
        /\ DESYNC_COUNT[d] = 1
        /\ synchronized[d]
        /\ storecalls[d] = 0
        /\ pc[d] = "read"
        /\ frames[d] = <<>>
        /\ DOMAIN GAUGES = {}
        /\ DOMAIN DEVINFO = {}

-----------------------------------------------------------------------------
(* Every frame that passes the filter reaches _storeframe (claim C14).     *)

\* the positions in the values of f of the items that are not strings
NumericItems(f) == {i \in 1..Len(f.values) : ~f.values[i][2].str}

\* f has gauges to set: a non-empty value mapping that is not a DeviceInfo
\* record and has an item that is not a string
HasGauges(f) ==
    /\ (IF Contains(f.name, Paren) THEN Before(f.name, Paren) ELSE f.name)
           # DeviceInfo
    /\ NumericItems(f) # {}

\* device d is inside process_frame with a frame that has gauges: at one of
\* its items, or past the last and before line 81
Routing(d) == pc[d] \in {"gauge", "locked", "store"}

\* this step hands f to _storeframe on device d, once, under its full name
HandsOver(d, f) ==
    /\ storecalls'[d] = storecalls[d] + 1
    /\ lastcall'[d] = Some([data |-> f.data, name |-> f.name, rest |-> f.rest])

\* the gauge of item i of the frame device d works on is registered and
\* has a value under the label of d
GaugeSet(d, i) ==
    LET g == Derive(TABLE_NAME_MAP(partition(cur[d].name, Paren)[1]),
                    cur[d].values[i][1], cur[d].values[i][2].num)
    IN  /\ g.gaugename \in DOMAIN GAUGES
        /\ d \in DOMAIN samples[GAUGES[g.gaugename]]

\* C14: every frame that passes the filter of function code and length is
\* handed to _storeframe exactly once, with its full register name and its
\* rest, after its values were routed.  A frame with no gauge to set (no
\* values, a DeviceInfo record, strings only) is handed over by the step that
\* reads it, a DeviceInfo record together with its info series; a frame with
\* gauges is kept as the frame in work, not handed over while the thread is
\* at one of its items, and handed over by the step after the one that set
\* its last numeric item, when the gauge of every numeric item has a value;
\* _storeframe is called at no other step.
C14_AlwaysForwarded ==
    /\ [][\A d \in Devices : \A f \in BusFrames :
             ReadFrame(d, f) /\ f.func = ACK06 /\ f.length >= 3 =>
                 IF HasGauges(f)
                 THEN /\ cur'[d] = f
                      /\ Routing(d)'
                      /\ storecalls'[d] = storecalls[d]
                 ELSE /\ HandsOver(d, f)
                      /\ ~Routing(d)'
                      /\ f.values # <<>> =>
                             \E k \in DOMAIN DEVINFO' : DEVINFO'[k] = f.values]_vars
    /\ [][\A d \in Devices :
             Routing(d) =>
                 IF Routing(d)'
                 THEN /\ storecalls'[d] = storecalls[d]
                      /\ cur'[d] = cur[d]
                      /\ item'[d] >= item[d]
                 ELSE /\ HandsOver(d, cur[d])
                      /\ pc[d] = "store"
                      /\ pc'[d] \in {"read", "reopen"}]_vars
    /\ [][\A d \in Devices :
             storecalls'[d] # storecalls[d] =>
                 /\ storecalls'[d] = storecalls[d] + 1
                 /\ FRAME_COUNT'[d] = FRAME_COUNT[d] + 1 \/ pc[d] = "store"]_vars
    /\ [](\A d \in Devices :
             Routing(d) =>
                 /\ cur[d].func = ACK06 /\ cur[d].length >= 3
                 /\ item[d] \in NumericItems(cur[d])
                 /\ \A i \in NumericItems(cur[d]) :
                        /\ i < item[d] => GaugeSet(d, i)
                        /\ pc[d] = "store" => i <= item[d] /\ GaugeSet(d, i))

\* one device has been through a frame with a string and a number and the
\* other through a DeviceInfo record and a frame with no values: all three
\* frames were handed over, the qualified name Zone(1) as it is
C14_Witness ==
    \E d, e \in Devices :
        /\ storecalls[d] = 1
        /\ lastcall[d] = Some([data |-> "P4", name |-> HeatPump01, rest |-> "on"])
        /\ Len(created) = 1
        /\ storecalls[e] = 2
        /\ lastcall[e] = Some([data |-> "P1", name |-> Zone1, rest |-> "on"])
        /\ DOMAIN DEVINFO # {}
        /\ FRAME_COUNT[d] = 1
        /\ FRAME_COUNT[e] = 2

-----------------------------------------------------------------------------
(* Isolation of the devices under a failure (claim C15).                   *)

\* an exception that is not an OSError has ended the thread of device d
Ended(d) == pc[d] \in {RaisedAt72, RaisedAt121}

\* what device d owns, and where its thread is
OwnState(d) ==
    <<pc[d], stream[d], bus[d], synchronized[d], register_to_rest[d],
      frame_to_index[d], frames[d], FRAME_COUNT[d], DESYNC_COUNT[d],
      RECONNECT_COUNT[d], cur[d], item[d], gauge[d], lastcall[d],
      storecalls[d]>>

\* C15: an exception that is not a transport error, raised while a device
\* processes a frame, inside the guarded section of _set_gauge or outside,
\* ends the thread of that device alone: the step changes no other device's
\* state or position and no registered gauge or value, and leaves the lock
\* free if the thread held it and as it was if not; the thread that ended
\* takes no further step; the lock is held only by a thread that is alive
\* inside the guarded section, never by one that ended; so whenever a thread
\* waits for the lock and no thread is inside the section the lock is free
\* and the waiting thread can take it.
C15_FailureIsolated ==
    /\ [][\A d \in Devices :
             ~Ended(d) /\ Ended(d)' =>
                 /\ \A e \in Devices \ {d} : OwnState(e)' = OwnState(e)
                 /\ UNCHANGED <<GAUGES, created, samples, DEVINFO>>
                 /\ CV' = IF CV = Some(d) THEN None ELSE CV]_vars
    /\ [][\A d \in Devices : Ended(d) => OwnState(d)' = OwnState(d)]_vars
    /\ [](\A d \in Devices : CV = Some(d) => pc[d] = "locked")
    /\ [](\A e \in Devices :
             pc[e] = "gauge" /\ (\A x \in Devices : pc[x] # "locked") =>
                 CV = None)

\* the thread of one device ended inside the guarded section, and the other
\* device is inside the section now, holding the lock
C15_Witness ==
    \E d, e \in Devices :
        /\ pc[d] = RaisedAt121
        /\ pc[e] = "locked"
        /\ CV = Some(e)

-----------------------------------------------------------------------------
(* The empty configuration (claim C16).                                    *)

\* C16: with an empty configuration, constructing Finitude sets the port to
\* 8000, and start_listeners() called with no argument raises nothing and
\* makes no monitor and starts no thread.
C16_EmptyConfig ==
    loaded = <<>> =>
        /\ step # "main" => config["port"] = 8000
        /\ step \in {"done", "KeyError"} /\ larg = <<>> =>
               /\ step = "done"
               /\ monitors = <<>>

-----------------------------------------------------------------------------
(* The index map and the log of one device (claim C17).                    *)

\* the values of the dict f
Values(f) == {f[k] : k \in DOMAIN f}

\* the indices in the entries of the log frs
LogIndices(frs) == {frs[i][3] : i \in 1..Len(frs)}

\* C17: on every device, in every reachable state, the values of
\* frame_to_index are the integers 1..n, n the size of the map, each the
\* value of one key; the indices in the entries of frames are the values of
\* the map, none more and none less; so the size of the map is at most the
\* length of frames.
C17_MapAndLog ==
    \A d \in Devices :
        LET fti == frame_to_index[d]
            n == Cardinality(DOMAIN fti)
        IN  /\ Values(fti) = 1..n
            /\ \A p, q \in DOMAIN fti : fti[p] = fti[q] => p = q
            /\ LogIndices(frames[d]) \subseteq Values(fti)
            /\ Values(fti) \subseteq LogIndices(frames[d])
            /\ n <= Len(frames[d])

\* a device with two payloads in its map and a log that is longer than the
\* map, its first payload stored twice
C17_Witness ==
    \E d \in Devices :
        /\ frame_to_index[d] = [P1 |-> 1, P2 |-> 2]
        /\ Len(frames[d]) = 3
        /\ frames[d][3][3] = 1

-----------------------------------------------------------------------------
(* Desyncs and frames received (claim C18).                                *)

\* C18: on every device, in every reachable state, the desync counter is at
\* most the frames-received counter; a device starts unsynchronized and a
\* desync is counted only on a synchronized device, which a received frame
\* alone makes it, so the counted desyncs, and one more while the device is
\* synchronized, are at most the frames received.
C18_DesyncsAtMostFrames ==
    \A d \in Devices :
        /\ DESYNC_COUNT[d] <= FRAME_COUNT[d]
        /\ DESYNC_COUNT[d] + (IF synchronized[d] THEN 1 ELSE 0)
               <= FRAME_COUNT[d]

\* a device that lost synchronisation after its one frame and has had one
\* more CRC error, which was not counted
C18_Witness ==
    \E d \in Devices :
        /\ FRAME_COUNT[d] = 1
        /\ DESYNC_COUNT[d] = 1
        /\ crcs[d] = 2
        /\ ~synchronized[d]

-----------------------------------------------------------------------------
(* Reads need a connection (claim C19).                                    *)

\* device d has a connection: a stream and a Bus, the Bus made over that
\* stream
Active(d) == stream[d] # 0 /\ bus[d] = stream[d]

\* this step is a bus.read() of device d: it returns a frame, raises, or
\* reports a CRC error
ReadIssued(d) ==
    \/ FRAME_COUNT'[d] # FRAME_COUNT[d]
    \/ crcs'[d] # crcs[d]
    \/ pc[d] = "read" /\ pc'[d] = "except"

\* C19: a thread issues bus.read() only while its device has a connection,
\* stream and bus both set and the bus made over the current stream: a
\* thread that is at its read has one, every step that is a read starts
\* from such a state, and a thread between an OSError and the next open()
\* that returns (in the handler, or about to open again, also after an
\* open() that made the stream and failed to make the bus) issues no read.
C19_ReadsNeedConnection ==
    /\ [](\A d \in Devices : pc[d] = "read" => Active(d))
    /\ [](\A d \in Devices : pc[d] = "reopen" => stream[d] = 0 /\ bus[d] = 0)
    /\ [][\A d \in Devices :
             ReadIssued(d) => pc[d] = "read" /\ Active(d)]_vars
    /\ [][\A d \in Devices :
             pc[d] \in {"except", "reopen"} =>
                 /\ ~ReadIssued(d)
                 /\ pc'[d] \in {"except", "reopen"} \/ Active(d)']_vars

\* a reopen made the second stream of a device and failed to make the bus:
\* the thread is in the handler with a stream and no bus
C19_Witness ==
    \E d \in Devices :
        /\ pc[d] = "except"
        /\ opens[d] = 2
        /\ stream[d] = 2
        /\ bus[d] = 0

-----------------------------------------------------------------------------
(* What a reconnection leaves alone (claim C20).                           *)

\* C20: the handler of a transport error and the open() that follows change,
\* of the state of the program, only the stream, the bus and the reconnect
\* counter of the device: its synchronized flag, desync counter, last rests,
\* index map and log, its frames-received counter, the gauges and every
\* other device are as they were; so a device that was synchronized when
\* its connection was lost is reported synchronized for as long as it has
\* none.
C20_ReconnectFrame ==
    /\ [][\A d \in Devices :
             pc[d] \in {"except", "reopen"} /\ pc'[d] # pc[d] =>
                 /\ synchronized' = synchronized
                 /\ DESYNC_COUNT' = DESYNC_COUNT
                 /\ register_to_rest' = register_to_rest
                 /\ frame_to_index' = frame_to_index
                 /\ frames' = frames
                 /\ UNCHANGED <<FRAME_COUNT, GAUGES, created, samples,
                                DEVINFO, CV, lastcall, storecalls>>
                 /\ \A e \in Devices \ {d} :
                        /\ stream'[e] = stream[e]
                        /\ bus'[e] = bus[e]
                        /\ RECONNECT_COUNT'[e] = RECONNECT_COUNT[e]]_vars
    /\ [][\A d \in Devices :
             ~Active(d) => synchronized'[d] = synchronized[d]]_vars

\* a synchronized device lost its connection: the handler has run, the
\* device has no stream and no bus and is still reported synchronized
C20_Witness ==
    \E d \in Devices :
        /\ pc[d] = "reopen"
        /\ stream[d] = 0
        /\ bus[d] = 0
        /\ synchronized[d]
        /\ FRAME_COUNT[d] = 1
        /\ RECONNECT_COUNT[d] = 1

====
